---- MODULE Spec2Model ----
(***************************************************************************)
(* Model of the similarity / classification engine of the phishing         *)
(* backend: routes/url_routes.py (classify_url and its helpers) and        *)
(* routes/image_routes.py (classify_image and find_closest_match).         *)
(*                                                                         *)
(* Text is a sequence of one-character strings.  A Python float is a       *)
(* record [tag, num]: tag "fin" with num in units of 1/Scale, tag "inf"    *)
(* for float("inf"), tag "null" for a JSON null.  An optional value is a   *)
(* sequence: None is << >>, a present value x is << x >>.                  *)
(* The gzip sizes behind ncd(), and the tag / link sets behind             *)
(* dom_similarity() and link_similarity(), are inputs: a reference entry   *)
(* carries the three values the code computes for it against the query.    *)
(***************************************************************************)
EXTENDS Integers, Sequences, FiniteSets, TLC

VARIABLES
    KNOWN_PHISH_URLS,  \* module global of url_routes.py, loaded at import
    kind,              \* "none" | "url" | "image": the request being served
    pc,                \* position of the request in classify_url / classify_image
    url,               \* argument of classify_url
    path,              \* stages the request has entered, in order
    fetched,           \* "" before requests.get ran, then "ok" or the exception it raised
    exc,               \* exception that left classify_url / classify_image, "" if none
    legit,             \* legit_file, legit_scores (URL) or best_legit_file, best_legit_ncd (image)
    phish,             \* phish_file, phish_scores (URL) or best_phish_file, best_phish_ncd (image)
    base_result,       \* the dict classify_url returns
    results,           \* the dict classify_image returns, << >> until it is built
    folder,            \* argument of a corpus scan run on its own
    scanner,           \* which scanner that run calls
    ret                \* what that scan returned, << >> before it ran

vars == << KNOWN_PHISH_URLS, kind, pc, url, path, fetched, exc, legit, phish,
           base_result, results, folder, scanner, ret >>

----------------------------------------------------------------------------
(* Bounds *)

MaxEntries == 2   \* entries in one reference directory
Scale == 2        \* a float x is the integer x * Scale

----------------------------------------------------------------------------
(* Python values *)

None == << >>
Some(x) == << x >>

Fin(n) == [tag |-> "fin", num |-> n]
Inf == [tag |-> "inf", num |-> 0]
Null == [tag |-> "null", num |-> 0]

\* math.isfinite
IsFinite(v) == v.tag = "fin"

\* a < b on floats (neither is NaN: gzip output is never empty, so ncd() divides
\* by a positive size)
Lt(a, b) == a.tag = "fin" /\ (b.tag = "inf" \/ (b.tag = "fin" /\ a.num < b.num))

Max(a, b) == IF a >= b THEN a ELSE b

SetMin(S) == CHOOSE m \in S : \A k \in S : m <= k

----------------------------------------------------------------------------
(* Text *)

LowerChar(c) ==
    CASE c = "A" -> "a"
      [] c = "B" -> "b"
      [] c = "H" -> "h"
      [] c = "T" -> "t"
      [] c = "P" -> "p"
      [] OTHER -> c

\* str.lower
Lower(s) == [i \in 1..Len(s) |-> LowerChar(s[i])]

RECURSIVE LStrip(_)
LStrip(s) == IF s # << >> /\ Head(s) = " " THEN LStrip(Tail(s)) ELSE s

RECURSIVE RStrip(_)
RStrip(s) ==
    IF s # << >> /\ s[Len(s)] = " " THEN RStrip(SubSeq(s, 1, Len(s) - 1)) ELSE s

\* str.strip
Strip(s) == RStrip(LStrip(s))

\* Python's  s in t  on strings
IsSubstring(s, t) ==
    \E i \in 0..(Len(t) - Len(s)) : SubSeq(t, i + 1, i + Len(s)) = s

\* str.find, 1-based, 0 when absent
FindChar(s, c) ==
    LET hits == {i \in 1..Len(s) : s[i] = c}
    IN  IF hits = {} THEN 0 ELSE SetMin(hits)

----------------------------------------------------------------------------
(* urllib.parse.urlparse, as far as is_known_phish uses it *)

Letters == {"a", "b", "h", "t", "p", "A", "B", "H", "T", "P"}
SchemeChars == Letters \cup {"+", "-", "."}

\* urlsplit: a leading  scheme:  is cut off when it is made of scheme characters
AfterScheme(u) ==
    LET i == FindChar(u, ":")
    IN  IF i > 1 /\ u[1] \in Letters /\ \A k \in 1..(i - 1) : u[k] \in SchemeChars
        THEN SubSeq(u, i + 1, Len(u))
        ELSE u

\* urlsplit / _splitnetloc: what follows a leading // up to the first of / ? #
Netloc(u) ==
    LET r == AfterScheme(u)
    IN  IF Len(r) >= 2 /\ r[1] = "/" /\ r[2] = "/"
        THEN LET ds == {k \in 3..Len(r) : r[k] \in {"/", "?", "#"}}
                 d == IF ds = {} THEN Len(r) + 1 ELSE SetMin(ds)
             IN  SubSeq(r, 3, d - 1)
        ELSE << >>

\* urlsplit raises ValueError("Invalid IPv6 URL") on an unbalanced bracket
UrlParseRaises(u) ==
    LET n == Netloc(u)
        open == \E i \in 1..Len(n) : n[i] = "["
        close == \E i \in 1..Len(n) : n[i] = "]"
    IN  (open /\ ~close) \/ (close /\ ~open)

----------------------------------------------------------------------------
(* Known phishing URL list *)

\* lines of PHISH_LIST_PATH.txt:  " HTTP://aB/ ",  "b",  " "
PhishLine1 == << " ", "H", "T", "T", "P", ":", "/", "/", "a", "B", "/", " " >>
PhishLine2 == << "b" >>
BlankLine == << " " >>

PhishFiles ==
    { [exists |-> FALSE, lines |-> {}],
      [exists |-> TRUE, lines |-> {BlankLine}],
      [exists |-> TRUE, lines |-> {PhishLine1, BlankLine}],
      [exists |-> TRUE, lines |-> {PhishLine1, PhishLine2}] }

load_phish_list(file) ==
    IF ~file.exists
    THEN {}
    ELSE {Lower(Strip(line)) : line \in {l \in file.lines : Strip(l) # << >>}}

\* is_known_phish without its loop over the list: exact matches only
is_known_phish_exact_only(u) ==
    LET url_norm == Lower(Strip(u))
    IN  IF url_norm \in KNOWN_PHISH_URLS
        THEN "True"
        ELSE IF UrlParseRaises(url_norm) THEN "ValueError" ELSE "False"

\* "True", "False", or "ValueError" when urlparse raises
is_known_phish(u) ==
    LET url_norm == Lower(Strip(u))
    IN  IF url_norm \in KNOWN_PHISH_URLS
        THEN "True"
        ELSE IF UrlParseRaises(url_norm)
        THEN "ValueError"
        ELSE LET domain == Lower(Netloc(url_norm))
             IN  IF \E p_url \in KNOWN_PHISH_URLS :
                        domain # << >> /\ IsSubstring(domain, p_url)
                 THEN "True"
                 ELSE "False"

----------------------------------------------------------------------------
(* Reference directories *)

PageName(i) == << "page", i >>
ImageName(i, ext) == << "img", i, ext >>

NcdVals == {Fin(1), Fin(Scale + 1)}
DomVals == {Fin(0), Fin(Scale)}
LinkVals == {Fin(0), Fin(Scale)}

\* One name of url_legit / url_phished as os.listdir returns it: a
\* sub-directory, a file whose read or comparison raises, or a page with the
\* ncd, dom and links values the code computes for it.
UrlEntries ==
    UNION { {[name |-> PageName(i), isfile |-> FALSE, raises |-> FALSE,
              ncd |-> Fin(0), dom |-> Fin(0), links |-> Fin(0)],
             [name |-> PageName(i), isfile |-> TRUE, raises |-> TRUE,
              ncd |-> Fin(0), dom |-> Fin(0), links |-> Fin(0)]}
            \cup
            {[name |-> PageName(i), isfile |-> TRUE, raises |-> FALSE,
              ncd |-> n, dom |-> d, links |-> l] :
                n \in NcdVals, d \in DomVals, l \in LinkVals}
          : i \in 1..MaxEntries }

ImageExts == {".png", ".PNG", ".txt"}

\* One name of ./legit or ./phished: any extension, an image that
\* preprocess_image cannot open, or one with its ncd to the query.
ImageEntries ==
    UNION { {[name |-> ImageName(i, x), raises |-> TRUE, ncd |-> Fin(0)]}
            \cup
            {[name |-> ImageName(i, x), raises |-> FALSE, ncd |-> n] : n \in NcdVals}
          : i \in 1..MaxEntries, x \in ImageExts }

\* os.listdir: the names of a directory, each once, in any order
ListingsOver(E) ==
    UNION { {s \in [1..n -> E] :
                \A i, j \in 1..n : i # j => s[i].name[2] # s[j].name[2]}
          : n \in 0..MaxEntries }

MissingDir == [isdir |-> FALSE, listing |-> << >>]
Dir(l) == [isdir |-> TRUE, listing |-> l]

UrlDirs == {MissingDir} \cup {Dir(l) : l \in ListingsOver(UrlEntries)}
ImageDirs == {MissingDir} \cup {Dir(l) : l \in ListingsOver(ImageEntries)}

----------------------------------------------------------------------------
(* Corpus scans *)

InitScores == [ncd |-> Inf, dom |-> Fin(0), links |-> Fin(0)]

\* the loop body with  <=  for  < : the last of several tied entries wins
BestMatchStep_LastTieWins(best, e) ==
    IF ~e.isfile
    THEN best
    ELSE IF e.raises
    THEN best
    ELSE IF ~Lt(best.scores.ncd, e.ncd)
    THEN [file |-> e.name,
          scores |-> [ncd |-> e.ncd, dom |-> e.dom, links |-> e.links]]
    ELSE best

\* body of the for loop of find_best_match for one filename
BestMatchStep(best, e) ==
    IF ~e.isfile
    THEN best
    ELSE IF e.raises
    THEN best
    ELSE IF Lt(e.ncd, best.scores.ncd)
    THEN [file |-> e.name,
          scores |-> [ncd |-> e.ncd, dom |-> e.dom, links |-> e.links]]
    ELSE best

RECURSIVE BestMatchLoop(_, _)
BestMatchLoop(best, listing) ==
    IF listing = << >>
    THEN best
    ELSE BestMatchLoop(BestMatchStep(best, Head(listing)), Tail(listing))

find_best_match(dir) ==
    IF ~dir.isdir
    THEN [file |-> None, scores |-> InitScores]
    ELSE BestMatchLoop([file |-> None, scores |-> InitScores], dir.listing)

LowerExt(x) == IF x = ".PNG" THEN ".png" ELSE x

\* filename.lower().endswith(('.png', '.jpg', '.jpeg', '.bmp'))
HasImageExt(name) == LowerExt(name[3]) \in {".png", ".jpg", ".jpeg", ".bmp"}

\* the loop body with an except clause that forgets the best match so far
ClosestMatchStep_FailureResets(best, e) ==
    IF ~HasImageExt(e.name)
    THEN best
    ELSE IF e.raises
    THEN [file |-> None, ncd |-> Inf]
    ELSE IF Lt(e.ncd, best.ncd)
    THEN [file |-> e.name, ncd |-> e.ncd]
    ELSE best

\* body of the for loop of find_closest_match for one filename
ClosestMatchStep(best, e) ==
    IF ~HasImageExt(e.name)
    THEN best
    ELSE IF e.raises
    THEN best
    ELSE IF Lt(e.ncd, best.ncd)
    THEN [file |-> e.name, ncd |-> e.ncd]
    ELSE best

RECURSIVE ClosestMatchLoop(_, _)
ClosestMatchLoop(best, listing) ==
    IF listing = << >>
    THEN best
    ELSE ClosestMatchLoop(ClosestMatchStep(best, Head(listing)), Tail(listing))

\* raised is "" when the call returns; os.listdir raises on a missing folder
find_closest_match(dir) ==
    IF ~dir.isdir
    THEN [raised |-> "FileNotFoundError", file |-> None, ncd |-> Inf]
    ELSE LET b == ClosestMatchLoop([file |-> None, ncd |-> Inf], dir.listing)
         IN  [raised |-> "", file |-> b.file, ncd |-> b.ncd]

----------------------------------------------------------------------------
(* classify_url *)

Http == << "h", "t", "t", "p", ":", "/", "/" >>

\* URLs a client posts to /api/url
Urls ==
    { Http \o << "a", "b", "/" >>,
      << " " >> \o << "H", "T", "T", "P", ":", "/", "/", "A", "B", "/", " " >>,
      Http \o << "a" >>,
      Http \o << "b", "a", "/" >>,
      Http \o << "t", "p" >>,
      Http \o << "[" >>,
      << "/", "/", "a", "b" >>,
      << "a", "b" >>,
      << "b" >> }

BaseResult ==
    [known_phish |-> FALSE,
     best_legit_file |-> None, best_phish_file |-> None,
     best_legit_scores |-> None, best_phish_scores |-> None,
     legit_total_score |-> 0, phish_total_score |-> 0,
     decision |-> "None", message |-> ""]

\* requests.get(url, timeout=8) followed by raise_for_status(): "ok", or the
\* exception raised.  requests refuses a URL without scheme, with a scheme it
\* has no adapter for, or without host, before any connection is made.
FetchOutcomes(u) ==
    LET v == LStrip(u)
        i == FindChar(v, ":")
        scheme == IF AfterScheme(v) # v THEN Lower(SubSeq(v, 1, i - 1)) ELSE << >>
    IN  IF scheme = << >>
        THEN {"MissingSchema"}
        ELSE IF scheme # << "h", "t", "t", "p" >>
        THEN {"InvalidSchema"}
        ELSE IF Netloc(v) = << >>
        THEN {"InvalidURL"}
        ELSE {"ok", "Timeout", "ConnectionError", "HTTPError"}

FetchErrorMessage(e) ==
    CASE e = "MissingSchema" -> "Could not fetch URL content: Invalid URL: No scheme supplied"
      [] e = "InvalidSchema" -> "Could not fetch URL content: No connection adapters were found"
      [] e = "InvalidURL" -> "Could not fetch URL content: Invalid URL: No host supplied"
      [] e = "Timeout" -> "Could not fetch URL content: Read timed out. (read timeout=8)"
      [] e = "ConnectionError" -> "Could not fetch URL content: Max retries exceeded"
      [] e = "HTTPError" -> "Could not fetch URL content: 404 Client Error"

\* math.isfinite guard and max(0.0, 1.0 - ncd_val)
ncd_to_sim(ncd_val) ==
    IF ~IsFinite(ncd_val) THEN 0 ELSE Max(0, Scale - ncd_val.num)

SanitizeValue(v) == IF IsFinite(v) THEN v ELSE Null

sanitize_scores(scores) ==
    IF scores = None
    THEN None
    ELSE Some([ncd |-> SanitizeValue(scores[1].ncd),
               dom |-> SanitizeValue(scores[1].dom),
               links |-> SanitizeValue(scores[1].links)])

\* lines 250-259: the fused total of one category
FusedTotal(m) ==
    IF m.file # None
    THEN ncd_to_sim(m.scores.ncd) + m.scores.dom.num + m.scores.links.num
    ELSE 0

\* lines 264-276
UrlDecision(legit_total, phish_total) ==
    IF legit_total > phish_total /\ legit_total > 0
    THEN "LEGITIMATE"
    ELSE IF phish_total > 0
    THEN "PHISHED"
    ELSE "None"

UrlDecisionMessage(d) ==
    CASE d = "LEGITIMATE" -> "Classified as LEGITIMATE"
      [] d = "PHISHED" -> "Classified as PHISHED"
      [] OTHER -> "No strong evidence from similarity metrics."

NoMatch == [file |-> None, scores |-> InitScores]

InitCommon ==
    /\ kind = "none"
    /\ url = << >>
    /\ path = << >>
    /\ fetched = ""
    /\ exc = ""
    /\ legit = NoMatch
    /\ phish = NoMatch
    /\ base_result = BaseResult
    /\ results = None

Init ==
    /\ \E file \in PhishFiles : KNOWN_PHISH_URLS = load_phish_list(file)
    /\ pc = "idle"
    /\ InitCommon
    /\ folder = MissingDir
    /\ scanner = ""
    /\ ret = None

ScanUnchanged == UNCHANGED << KNOWN_PHISH_URLS, folder, scanner, ret >>

\* lines 195-214: build base_result, then the known-phish check
KnownPhishCheck ==
    /\ pc = "idle"
    /\ \E u \in Urls :
        /\ url' = u
        /\ kind' = "url"
        /\ path' = << "START" >>
        /\ LET known == is_known_phish(u)
           IN  CASE known = "True" ->
                      /\ base_result' = [BaseResult EXCEPT
                            !.known_phish = TRUE,
                            !.decision = "PHISHED",
                            !.message = "URL found in known phishing dataset."]
                      /\ pc' = "done"
                      /\ exc' = ""
                 [] known = "ValueError" ->
                      /\ base_result' = BaseResult
                      /\ pc' = "raised"
                      /\ exc' = "ValueError"
                 [] OTHER ->
                      /\ base_result' = BaseResult
                      /\ pc' = "fetch"
                      /\ exc' = ""
    /\ UNCHANGED << fetched, legit, phish, results >>
    /\ ScanUnchanged

\* the download without its try / except: the exception leaves classify_url
Fetch_Uncaught ==
    /\ pc = "fetch"
    /\ path' = Append(path, "FETCH")
    /\ \E o \in FetchOutcomes(url) :
        /\ fetched' = o
        /\ IF o = "ok"
           THEN pc' = "scan_legit" /\ exc' = ""
           ELSE pc' = "raised" /\ exc' = o
    /\ UNCHANGED << kind, url, legit, phish, base_result, results >>
    /\ ScanUnchanged

\* the download with one more attempt after a first failure
Fetch_RetryOnce ==
    /\ pc = "fetch"
    /\ path' = Append(path, "FETCH")
    /\ \E o \in FetchOutcomes(url) :
        /\ fetched' = o
        /\ IF o = "ok"
           THEN /\ pc' = "scan_legit"
                /\ UNCHANGED base_result
           ELSE IF fetched = ""
           THEN /\ pc' = "fetch"
                /\ UNCHANGED base_result
           ELSE /\ pc' = "done"
                /\ base_result' = [base_result EXCEPT !.message = FetchErrorMessage(o)]
    /\ UNCHANGED << kind, url, exc, legit, phish, results >>
    /\ ScanUnchanged

\* lines 216-225: download the page; any exception ends the request with a message
Fetch ==
    /\ pc = "fetch"
    /\ path' = Append(path, "FETCH")
    /\ \E o \in FetchOutcomes(url) :
        /\ fetched' = o
        /\ IF o = "ok"
           THEN /\ pc' = "scan_legit"
                /\ UNCHANGED base_result
           ELSE /\ pc' = "done"
                /\ base_result' = [base_result EXCEPT !.message = FetchErrorMessage(o)]
    /\ UNCHANGED << kind, url, exc, legit, phish, results >>
    /\ ScanUnchanged

\* line 227
ScanLegit ==
    /\ pc = "scan_legit"
    /\ path' = Append(path, "SCAN_LEGIT")
    /\ \E d \in UrlDirs : legit' = find_best_match(d)
    /\ pc' = "scan_phish"
    /\ UNCHANGED << kind, url, fetched, exc, phish, base_result, results >>
    /\ ScanUnchanged

\* line 228
ScanPhish ==
    /\ pc = "scan_phish"
    /\ path' = Append(path, "SCAN_PHISH")
    /\ \E d \in UrlDirs : phish' = find_best_match(d)
    /\ pc' = "fuse"
    /\ UNCHANGED << kind, url, fetched, exc, legit, base_result, results >>
    /\ ScanUnchanged

\* lines 230-237
WithBestMatches(r) ==
    [r EXCEPT
        !.best_legit_file = legit.file,
        !.best_phish_file = phish.file,
        !.best_legit_scores =
            IF legit.file # None THEN sanitize_scores(Some(legit.scores)) ELSE None,
        !.best_phish_scores =
            IF phish.file # None THEN sanitize_scores(Some(phish.scores)) ELSE None]

\* lines 230-244: neither folder gave a match
NoReference ==
    /\ pc = "fuse"
    /\ legit.file = None /\ phish.file = None
    /\ base_result' = [WithBestMatches(base_result) EXCEPT
            !.message = "URL not in phishing list, and no reference HTML pages available for similarity comparison."]
    /\ pc' = "done"
    /\ UNCHANGED << kind, url, path, fetched, exc, legit, phish, results >>
    /\ ScanUnchanged

\* lines 230-278: totals and decision
Fuse ==
    /\ pc = "fuse"
    /\ ~(legit.file = None /\ phish.file = None)
    /\ path' = Append(path, "FUSE")
    /\ LET legit_total == FusedTotal(legit)
           phish_total == FusedTotal(phish)
           d == UrlDecision(legit_total, phish_total)
       IN  base_result' = [WithBestMatches(base_result) EXCEPT
                !.legit_total_score = legit_total,
                !.phish_total_score = phish_total,
                !.decision = d,
                !.message = UrlDecisionMessage(d)]
    /\ pc' = "done"
    /\ UNCHANGED << kind, url, fetched, exc, legit, phish, results >>
    /\ ScanUnchanged

----------------------------------------------------------------------------
(* classify_image *)

\* line 48: preprocess_image on the upload; PIL raises on a file it cannot decode
PreprocessInput ==
    /\ pc = "idle"
    /\ kind' = "image"
    /\ path' = << "START", "PREPROCESS" >>
    /\ \E decodes \in BOOLEAN :
        IF decodes
        THEN pc' = "image_scan_legit" /\ exc' = ""
        ELSE pc' = "raised" /\ exc' = "UnidentifiedImageError"
    /\ UNCHANGED << url, fetched, legit, phish, base_result, results >>
    /\ ScanUnchanged

\* the folders classify_image_route passes exist (its isdir check, lines 92-93)
RouteImageDirs == {d \in ImageDirs : d.isdir}

\* line 50
ImageScanLegit ==
    /\ pc = "image_scan_legit"
    /\ path' = Append(path, "SCAN_LEGIT")
    /\ \E d \in RouteImageDirs : legit' = find_closest_match(d)
    /\ pc' = "image_scan_phish"
    /\ UNCHANGED << kind, url, fetched, exc, phish, base_result, results >>
    /\ ScanUnchanged

\* line 51
ImageScanPhish ==
    /\ pc = "image_scan_phish"
    /\ path' = Append(path, "SCAN_PHISH")
    /\ \E d \in RouteImageDirs : phish' = find_closest_match(d)
    /\ pc' = "image_decide"
    /\ UNCHANGED << kind, url, fetched, exc, legit, base_result, results >>
    /\ ScanUnchanged

\* lines 60-65
ImageDecision(best_legit_ncd, best_phish_ncd) ==
    IF Lt(best_legit_ncd, best_phish_ncd) THEN "LEGITIMATE" ELSE "PHISHED"

\* lines 53-67
ImageDecide ==
    /\ pc = "image_decide"
    /\ path' = Append(path, "DECIDE")
    /\ LET d == ImageDecision(legit.ncd, phish.ncd)
       IN  results' = Some([best_legit_file |-> legit.file,
                            best_legit_ncd |-> legit.ncd,
                            best_phish_file |-> phish.file,
                            best_phish_ncd |-> phish.ncd,
                            decision |-> d,
                            message |-> IF d = "LEGITIMATE"
                                        THEN "Classified as LEGITIMATE"
                                        ELSE "Classified as PHISHED"])
    /\ pc' = "done"
    /\ UNCHANGED << kind, url, fetched, exc, legit, phish, base_result >>
    /\ ScanUnchanged

Next ==
    \/ KnownPhishCheck
    \/ Fetch
    \/ ScanLegit
    \/ ScanPhish
    \/ NoReference
    \/ Fuse
    \/ PreprocessInput
    \/ ImageScanLegit
    \/ ImageScanPhish
    \/ ImageDecide

Spec == Init /\ [][Next]_vars

\* a request runs synchronously to its return: no step waits on another request
FairSpec == Spec /\ WF_vars(Next)

----------------------------------------------------------------------------
(* A corpus scan on its own *)

ScanInit ==
    /\ KNOWN_PHISH_URLS = {}
    /\ pc = "scan"
    /\ InitCommon
    /\ \/ scanner = "find_best_match" /\ folder \in UrlDirs
       \/ scanner = "find_closest_match" /\ folder \in ImageDirs
    /\ ret = None

FlowUnchanged ==
    UNCHANGED << KNOWN_PHISH_URLS, kind, url, path, fetched, exc, legit, phish,
                 base_result, results, folder, scanner >>

RunFindBestMatch ==
    /\ pc = "scan"
    /\ scanner = "find_best_match"
    /\ ret' = Some(find_best_match(folder))
    /\ pc' = "scanned"
    /\ FlowUnchanged

RunFindClosestMatch ==
    /\ pc = "scan"
    /\ scanner = "find_closest_match"
    /\ ret' = Some(find_closest_match(folder))
    /\ pc' = "scanned"
    /\ FlowUnchanged

ScanNext == RunFindBestMatch \/ RunFindClosestMatch

ScanSpec == ScanInit /\ [][ScanNext]_vars

----------------------------------------------------------------------------
(* Properties *)

Range(f) == {f[i] : i \in DOMAIN f}

Terminated == pc \in {"done", "raised"}

\* the decision the request's response carries, "None" while none is set
Decision ==
    IF kind = "image"
    THEN IF results = None THEN "None" ELSE results[1].decision
    ELSE base_result.decision

\* the known-phish condition in the words of the specification
HostOf(u) == Netloc(Lower(Strip(u)))
ListedExactly(u) == Lower(Strip(u)) \in KNOWN_PHISH_URLS
ListedByHost(u) ==
    HostOf(u) # << >> /\ \E p \in KNOWN_PHISH_URLS : IsSubstring(HostOf(u), p)

\* C1: a URL that is in the known-phish set after normalization, or whose
\* non-empty host is a substring of a listed entry, is classified PHISHED with
\* known_phish = true, and its request enters neither the fetch nor a scan.
C1_KnownPhishShortCircuits ==
    (kind = "url" /\ (ListedExactly(url) \/ ListedByHost(url)))
        => /\ pc = "done"
           /\ base_result.decision = "PHISHED"
           /\ base_result.known_phish
           /\ fetched = ""
           /\ Range(path) \cap {"FETCH", "SCAN_LEGIT", "SCAN_PHISH", "FUSE"} = {}

C1_Witness ==
    /\ kind = "url" /\ pc = "done"
    /\ ~ListedExactly(url) /\ ListedByHost(url)
    /\ base_result.known_phish

\* C2: after fusion the decision is LEGITIMATE only if legit_total is the
\* strictly greater, positive total, PHISHED only if phish_total is, and there
\* is no decision when the totals are equal or both are <= 0.
C2_StrictlyGreaterTotalWins ==
    (kind = "url" /\ pc = "done" /\ "FUSE" \in Range(path))
        => LET lt == base_result.legit_total_score
               pt == base_result.phish_total_score
               d == base_result.decision
           IN  /\ d = "LEGITIMATE" => (lt > pt /\ lt > 0)
               /\ d = "PHISHED" => (pt > lt /\ pt > 0)
               /\ (lt = pt \/ (lt <= 0 /\ pt <= 0)) => d = "None"

\* entries of a listing that the scan compares with the query
UsableUrl(e) == e.isfile /\ ~e.raises
UsableImage(e) == HasImageExt(e.name) /\ ~e.raises
Usable(e) == IF scanner = "find_best_match" THEN UsableUrl(e) ELSE UsableImage(e)

\* entries whose read or canonicalization raises inside the scan's try block
FailingUrl(e) == e.isfile /\ e.raises
FailingImage(e) == HasImageExt(e.name) /\ e.raises
Failing(e) == IF scanner = "find_best_match" THEN FailingUrl(e) ELSE FailingImage(e)
NotFailing(e) == ~Failing(e)

UsableIndexes == {i \in DOMAIN folder.listing : Usable(folder.listing[i])}

\* C3: a scan of a missing directory, or of one with no usable entry, raises
\* nothing and returns no file with ncd = +infinity (find_best_match: also
\* dom = null and links = null, and a fused total of 0).
C3_EmptyCorpusResult ==
    (pc = "scanned" /\ UsableIndexes = {})
        => IF scanner = "find_best_match"
           THEN /\ ret[1].file = None
                /\ ret[1].scores = [ncd |-> Inf, dom |-> Null, links |-> Null]
                /\ FusedTotal(ret[1]) = 0
           ELSE /\ ret[1].raised = ""
                /\ ret[1].file = None
                /\ ret[1].ncd = Inf

ListingOrders(n) ==
    {q \in [1..n -> 1..n] : \A i, j \in 1..n : i # j => q[i] # q[j]}

Reordered(l, q) == [i \in 1..Len(l) |-> l[q[i]]]

ScanFile(d) ==
    IF scanner = "find_best_match"
    THEN find_best_match(d).file
    ELSE find_closest_match(d).file

\* C4: the best-match identifier a scan returns is the same for every order
\* in which the directory listing enumerates the same entries.
C4_ListingOrderIrrelevant ==
    (pc = "scanned" /\ folder.isdir)
        => \A q \in ListingOrders(Len(folder.listing)) :
              ScanFile(Dir(Reordered(folder.listing, q))) = ret[1].file

RetNcd == IF scanner = "find_best_match" THEN ret[1].scores.ncd ELSE ret[1].ncd

\* C5: the returned best match is an entry whose ncd is minimal among the
\* entries processed without failure, the first visited of those tied on that
\* minimum, and the returned dom and links are that same entry's.
C5_MinimalNcdFirstSeen ==
    (pc = "scanned" /\ folder.isdir)
        => LET l == folder.listing
           IN  IF UsableIndexes = {}
               THEN ret[1].file = None
               ELSE \E i \in UsableIndexes :
                       /\ \A j \in UsableIndexes : l[j].ncd.num >= l[i].ncd.num
                       /\ \A j \in UsableIndexes : j < i => l[j].ncd.num > l[i].ncd.num
                       /\ ret[1].file = l[i].name
                       /\ RetNcd = l[i].ncd
                       /\ scanner = "find_best_match" =>
                             /\ ret[1].scores.dom = l[i].dom
                             /\ ret[1].scores.links = l[i].links

\* two usable pages tie on the minimal ncd, the later one has the higher dom
\* and links, and the earlier one is returned
C5_Witness ==
    /\ pc = "scanned" /\ scanner = "find_best_match" /\ folder.isdir
    /\ \E i, j \in UsableIndexes :
          /\ i < j
          /\ folder.listing[i].ncd = folder.listing[j].ncd
          /\ folder.listing[i].dom.num < folder.listing[j].dom.num
          /\ folder.listing[i].links.num < folder.listing[j].links.num
          /\ \A k \in UsableIndexes : folder.listing[k].ncd.num >= folder.listing[i].ncd.num
          /\ ret[1].file = folder.listing[i].name

WithoutFailing(d) == Dir(SelectSeq(d.listing, NotFailing))

\* C6: an entry whose read or canonicalization fails is skipped and nothing
\* else: no exception leaves the scan, and the result is that of scanning the
\* same listing with the failing entries removed.
C6_FailingEntrySkipped ==
    (pc = "scanned" /\ \E i \in DOMAIN folder.listing : Failing(folder.listing[i]))
        => IF scanner = "find_best_match"
           THEN ret[1] = find_best_match(WithoutFailing(folder))
           ELSE /\ ret[1].raised = ""
                /\ ret[1] = find_closest_match(WithoutFailing(folder))

\* a failing entry follows a usable one, and the usable one is still returned
C6_Witness ==
    /\ pc = "scanned"
    /\ \E i, j \in DOMAIN folder.listing :
          /\ i < j
          /\ Usable(folder.listing[i])
          /\ Failing(folder.listing[j])
          /\ ret[1].file = folder.listing[i].name

\* C7: when the known-phish check misses and the download fails, classify_url
\* returns a result without decision, with a message, known_phish = false, no
\* scan, no best file and totals 0.
C7_FetchFailureIsUnknown ==
    (kind = "url" /\ fetched \notin {"", "ok"})
        => /\ pc = "done"
           /\ exc = ""
           /\ base_result.decision = "None"
           /\ base_result.message # ""
           /\ ~base_result.known_phish
           /\ Range(path) \cap {"SCAN_LEGIT", "SCAN_PHISH", "FUSE"} = {}
           /\ base_result.best_legit_file = None
           /\ base_result.best_phish_file = None
           /\ base_result.best_legit_scores = None
           /\ base_result.best_phish_scores = None
           /\ base_result.legit_total_score = 0
           /\ base_result.phish_total_score = 0

C7_Witness ==
    /\ kind = "url" /\ pc = "done"
    /\ fetched \in {"Timeout", "HTTPError"}
    /\ ~ListedExactly(url) /\ ~ListedByHost(url)

\* C8: classify_image returns LEGITIMATE only when best_legit_ncd is strictly
\* smaller than best_phish_ncd, and PHISHED only when best_phish_ncd is
\* strictly smaller than best_legit_ncd.
C8_SmallerNcdWins ==
    (kind = "image" /\ pc = "done")
        => /\ results[1].decision = "LEGITIMATE"
                => Lt(results[1].best_legit_ncd, results[1].best_phish_ncd)
           /\ results[1].decision = "PHISHED"
                => Lt(results[1].best_phish_ncd, results[1].best_legit_ncd)

NoStageTwice == \A i, j \in DOMAIN path : i # j => path[i] # path[j]

\* the stages in the order the state machine allows them
StageRank(st) ==
    CASE st = "START" -> 0
      [] st \in {"PREPROCESS", "FETCH"} -> 1
      [] st = "SCAN_LEGIT" -> 2
      [] st = "SCAN_PHISH" -> 3
      [] OTHER -> 4

StagesInOrder ==
    \A i, j \in DOMAIN path : i < j => StageRank(path[i]) < StageRank(path[j])

FiniteOrNull(v) == v.tag \in {"fin", "null"}

ScoresExposable(s) ==
    s = None \/ (FiniteOrNull(s[1].ncd) /\ FiniteOrNull(s[1].dom) /\ FiniteOrNull(s[1].links))

\* C10: no response carries a non-finite score: in the URL response the
\* scores, in the image response best_legit_ncd and best_phish_ncd, are finite
\* or null.
C10_NoNonFiniteScoreExposed ==
    pc = "done"
        => IF kind = "image"
           THEN /\ FiniteOrNull(results[1].best_legit_ncd)
                /\ FiniteOrNull(results[1].best_phish_ncd)
           ELSE /\ ScoresExposable(base_result.best_legit_scores)
                /\ ScoresExposable(base_result.best_phish_scores)

====
